---- MODULE Spec2Model ----
(***************************************************************************)
(* Model of src/audio_handler.py: the per-person attendance state machine, *)
(* the announcement queue, the playback worker, the session cleanup loop   *)
(* (reaper) and the session operations of AudioHandler.                    *)
(*                                                                         *)
(* Time is a discrete clock in whole seconds.  Threads are the producers   *)
(* (callers of process_person), the playback worker "W", the reaper "R"    *)
(* and the host thread "C" that calls start_session/end_session/shutdown.  *)
(* Each action is one step of one thread between two points at which       *)
(* another thread can observe or change shared state.                      *)
(***************************************************************************)
EXTENDS Integers, Sequences, FiniteSets, TLC

\* ------------------------------------------------------------------------
\* Program constants (src/audio_handler.py:19-22), in seconds
\* ------------------------------------------------------------------------
AUDIO_COOLDOWN_GLOBAL == 2
AUDIO_COOLDOWN_PER_PERSON == 5
SESSION_TIMEOUT == 300
REAPPEAR_THRESHOLD == 2
\* Config.RECOGNITION_COOLDOWN (src/config.py:38)
RECOGNITION_COOLDOWN == 3
\* time.sleep(60.0) of the cleanup loop
CLEANUP_INTERVAL == 60
\* audio_thread.join(timeout=2.0) in shutdown
JOIN_TIMEOUT == 2

\* ------------------------------------------------------------------------
\* Bounds of the model
\* ------------------------------------------------------------------------
\* how many times the clock advances in one behaviour of Spec, of SpecLong
\* and of SpecEvict
MaxTicks == 1
MaxTicksLong == 3
MaxTicksEvict == 5
\* ... and of SpecExample
MaxTicksExample == 2
\* ... and of SpecShutdown
MaxTicksShutdown == 1
\* ... and of SpecCamera
MaxTicksCamera == 2

\* the amounts by which the clock advances in these specifications
Deltas == {AUDIO_COOLDOWN_GLOBAL, AUDIO_COOLDOWN_PER_PERSON}
DeltasLong == {REAPPEAR_THRESHOLD, REAPPEAR_THRESHOLD + 1, AUDIO_COOLDOWN_PER_PERSON,
               SESSION_TIMEOUT + 1}
DeltasEvict == {AUDIO_COOLDOWN_PER_PERSON, SESSION_TIMEOUT + 1}
\* the observations of the worked example come at t = 0, t = 1 and t = 10
DeltasExample == {1, 9}
DeltasShutdown == {JOIN_TIMEOUT, CLEANUP_INTERVAL}
DeltasCamera == {1, RECOGNITION_COOLDOWN}

Producers == {"p1", "p2"}
PersonIds == {"S1", "S2"}
NameOf(pid) == IF pid = "S1" THEN "Alice" ELSE "Bob"

NoThread == "none"
NoTime == 0 - 1
NoAudio == <<>>

\* class PersonState
PersonState == {"NEW", "MARKING", "MARKED", "IGNORED"}
Rank(s) == CASE s = "NEW" -> 0 [] s = "MARKING" -> 1 [] s = "MARKED" -> 2 [] s = "IGNORED" -> 3

VARIABLES
    now,                    \* time.time()
    session_active,
    global_cooldown_until,
    people,                 \* person_id -> PersonRecord
    audio_queue,            \* deque of [text, time, seq]; seq is a history label
    audio_queue_lock,       \* owner of the Lock, or NoThread
    data_lock,              \* owner of the RLock, or NoThread
    audio_thread_running,
    prod,                   \* per producer: position and locals of process_person
    worker,                 \* position and locals of _process_audio_queue; after_stop
                            \* is a history field: the calls of audio_callback entered
                            \* with audio_thread_running cleared, counted up to 2
    reaper,                 \* position and locals of _session_cleanup_loop
    host,                   \* position of the thread calling the session operations
    ticks,                  \* number of clock advances so far
    camera,                 \* position and locals of run_camera_attendance, with the
                            \* attendance sheet of the day
    \* history variables
    next_seq,               \* label of the next enqueue since the last clear
    played,                 \* label of the last item taken by the worker since the last clear
    in_flight,              \* number of audio_callback calls that have not returned
    since_end,              \* seconds since the last playback ended, counted up to
                            \* AUDIO_COOLDOWN_GLOBAL; NoTime before the first one ends
    reset_since,            \* a session operation ran since the last playback ended
    announced,              \* per person and new state: announcements enqueued in this session
    rec_ann,                \* per person: number and observation time of the announcements
                            \* enqueued for the current record
    marked_seen,            \* per person: an attendance_marked=True observation was
                            \* processed in this session
    high,                   \* per person: highest state reached in this session
    lock_consumed           \* per person: NoTime, or the timestamp of the last observation
                            \* of a run of observations that began with a locked
                            \* observation of a MARKED record after a gap greater than
                            \* REAPPEAR_THRESHOLD and has had no such gap since

vars == <<now, session_active, global_cooldown_until, people, audio_queue,
          audio_queue_lock, data_lock, audio_thread_running, prod, worker,
          reaper, host, ticks, camera, next_seq, played, in_flight, since_end,
          reset_since, announced, rec_ann, marked_seen, high, lock_consumed>>

shared == <<session_active, global_cooldown_until, people, audio_queue,
            audio_queue_lock, data_lock, audio_thread_running>>
ghost == <<next_seq, played, in_flight, since_end, reset_since, announced, rec_ann,
           marked_seen, high, lock_consumed>>

\* ------------------------------------------------------------------------
\* Data structures
\* ------------------------------------------------------------------------
\* @dataclass PersonRecord, as built by _get_or_create_person
PersonRecord(person_id, person_name, current_time) ==
    [person_id |-> person_id,
     name |-> person_name,
     state |-> "NEW",
     last_audio_time |-> 0,
     last_seen_time |-> current_time,
     audio_lock_until |-> 0,
     has_triggered_ignored_audio |-> FALSE]

IdleProd == [pc |-> "idle", person_id |-> "S1", attendance_marked |-> FALSE,
             current_time |-> 0, audio_text |-> NoAudio]
\* raised is a history field: the last audio_callback call ended with an exception
IdleWorker == [pc |-> "loop", audio_text |-> NoAudio, raised |-> FALSE, after_stop |-> 0]
IdleReaper == [pc |-> "sleep", wake_at |-> CLEANUP_INTERVAL, cutoff_time |-> 0]
IdleHost == [pc |-> "idle", join_from |-> 0]
\* run_camera_attendance before a run: the tracking variables of lines 159-161,
\* the frame's locals, and the rows of today in the attendance sheet; recorded
\* and just are history fields: the students add_attendance_entry accepted in
\* this run, and whether it accepted the student in the student's last frame
IdleCamera == [pc |-> "idle", student_id |-> "S1", was_marked_today |-> FALSE,
               current_time |-> 0,
               recognized_today |-> {},
               cooldown_tracker |-> [sid \in PersonIds |-> NoTime],
               sheet |-> {},
               recorded |-> {},
               just |-> [sid \in PersonIds |-> FALSE]]
NoneAnnounced == [s \in PersonState |-> 0]
NoRecAnn == [n |-> 0, t |-> NoTime]

EmptyPeople == [pid \in {} |-> 0]

\* ------------------------------------------------------------------------
\* State transition logic (pure functions)
\* ------------------------------------------------------------------------
\* Mutant: the threshold itself counts as a reappearance (>= for >).
IsReappearance_Inclusive(current_time, last_seen_time) ==
    (current_time - last_seen_time) >= REAPPEAR_THRESHOLD

\* process_person: is_reappearance = time_since_last_seen > REAPPEAR_THRESHOLD
IsReappearance(current_time, last_seen_time) ==
    (current_time - last_seen_time) > REAPPEAR_THRESHOLD

\* Mutant: the per-person lock check is left out.
IsLocked_Never(current_time, person) == FALSE

\* Mutant: the comparison is inverted, the lock holds after its expiry.
IsLocked_AfterExpiry(current_time, person) == current_time > person.audio_lock_until

\* process_person: the per-person audio lock check
IsLocked(current_time, person) == current_time < person.audio_lock_until

\* Mutant: MARKING advances without the attendance_marked signal.
ApplyStateTransitions_Unconfirmed(state, attendance_marked, is_reappearance) ==
    IF state = "NEW" THEN "MARKING"
    ELSE IF state = "MARKING" THEN "MARKED"
    ELSE IF state = "MARKED" /\ is_reappearance THEN "IGNORED"
    ELSE state

\* Mutant: the branches are tried one after the other (if for elif), so one
\* observation can take several steps.
ApplyStateTransitions_FallThrough(state, attendance_marked, is_reappearance) ==
    LET s1 == IF state = "NEW" THEN "MARKING" ELSE state
        s2 == IF s1 = "MARKING" /\ attendance_marked THEN "MARKED" ELSE s1
    IN IF s2 = "MARKED" /\ is_reappearance THEN "IGNORED" ELSE s2

\* Mutant: an IGNORED record that reappears is put back to MARKED, so that the
\* next reappearance announces it again.
ApplyStateTransitions_IgnoredReopens(state, attendance_marked, is_reappearance) ==
    IF state = "NEW" THEN "MARKING"
    ELSE IF state = "MARKING" /\ attendance_marked THEN "MARKED"
    ELSE IF state = "MARKED" /\ is_reappearance THEN "IGNORED"
    ELSE IF state = "IGNORED" /\ is_reappearance THEN "MARKED"
    ELSE state

\* Mutant: a NEW record waits for the attendance_marked signal before it
\* leaves NEW.
ApplyStateTransitions_NewWaits(state, attendance_marked, is_reappearance) ==
    IF state = "NEW" /\ attendance_marked THEN "MARKING"
    ELSE IF state = "MARKING" /\ attendance_marked THEN "MARKED"
    ELSE IF state = "MARKED" /\ is_reappearance THEN "IGNORED"
    ELSE state

\* _apply_state_transitions: the new value of person.state
ApplyStateTransitions(state, attendance_marked, is_reappearance) ==
    IF state = "NEW" THEN "MARKING"
    ELSE IF state = "MARKING" /\ attendance_marked THEN "MARKED"
    ELSE IF state = "MARKED" /\ is_reappearance THEN "IGNORED"
    ELSE state

\* Mutant: the texts of the MARKED and the IGNORED announcements are exchanged.
AudioMessages_Swapped(previous_state, state, name) ==
    IF previous_state = "NEW" /\ state = "MARKING" THEN <<"Marking attendance">>
    ELSE IF previous_state = "MARKING" /\ state = "MARKED"
         THEN <<name, ", your attendance is already marked. Only once per session.">>
    ELSE IF previous_state = "MARKED" /\ state = "IGNORED" THEN <<"Greetings ", name>>
    ELSE NoAudio

\* _trigger_audio_for_transition: the audio_messages dictionary; a text is the
\* sequence of the pieces of the f-string, NoAudio when the key is absent
AudioMessages(previous_state, state, name) ==
    IF previous_state = "NEW" /\ state = "MARKING" THEN <<"Marking attendance">>
    ELSE IF previous_state = "MARKING" /\ state = "MARKED" THEN <<"Greetings ", name>>
    ELSE IF previous_state = "MARKED" /\ state = "IGNORED"
         THEN <<name, ", your attendance is already marked. Only once per session.">>
    ELSE NoAudio

\* Mutant: the per-person cooldown is not added.
LockUntil_NoCooldown(current_time) == current_time

\* _trigger_audio_for_transition: person.audio_lock_until
LockUntil(current_time) == current_time + AUDIO_COOLDOWN_PER_PERSON

\* Mutant: has_triggered_ignored_audio is tested but never set.
TriggerAudioForTransition_FlagNotSet(person, previous_state, current_time) ==
    LET audio_text == AudioMessages(previous_state, person.state, person.name) IN
    IF audio_text = NoAudio
    THEN [person |-> person, audio_text |-> NoAudio]
    ELSE IF person.state = "IGNORED" /\ person.has_triggered_ignored_audio
    THEN [person |-> person, audio_text |-> NoAudio]
    ELSE [person |-> [person EXCEPT !.audio_lock_until = LockUntil(current_time)],
          audio_text |-> audio_text]

\* _trigger_audio_for_transition: the record after the call and the text handed
\* to _queue_audio (NoAudio when nothing is queued)
TriggerAudioForTransition(person, previous_state, current_time) ==
    LET audio_text == AudioMessages(previous_state, person.state, person.name) IN
    IF audio_text = NoAudio
    THEN [person |-> person, audio_text |-> NoAudio]
    ELSE IF person.state = "IGNORED" /\ person.has_triggered_ignored_audio
    THEN [person |-> person, audio_text |-> NoAudio]
    ELSE [person |-> [person EXCEPT
                        !.has_triggered_ignored_audio =
                            IF person.state = "IGNORED" THEN TRUE ELSE @,
                        !.audio_lock_until = LockUntil(current_time)],
          audio_text |-> audio_text]

\* _get_or_create_person: the registry after the call
GetOrCreatePerson(ppl, person_id, person_name, current_time) ==
    IF person_id \notin DOMAIN ppl
    THEN (person_id :> PersonRecord(person_id, person_name, current_time)) @@ ppl
    ELSE ppl

\* Mutant: the lock test comes first, a locked observation returns before
\* last_seen_time is updated.
ProcessPersonLocked_LockedNotSeen(ppl, person_id, person_name, attendance_marked, current_time) ==
    LET ppl1 == GetOrCreatePerson(ppl, person_id, person_name, current_time)
        person == ppl1[person_id]
        is_reappearance == IsReappearance(current_time, person.last_seen_time)
        seen == [person EXCEPT !.last_seen_time = current_time]
    IN
    IF IsLocked(current_time, person)
    THEN [people |-> ppl1, audio_text |-> NoAudio]
    ELSE
        LET previous_state == seen.state
            moved == [seen EXCEPT !.state =
                        ApplyStateTransitions(seen.state, attendance_marked, is_reappearance)]
        IN
        IF moved.state # previous_state
        THEN LET r == TriggerAudioForTransition(moved, previous_state, current_time) IN
             [people |-> [ppl1 EXCEPT ![person_id] = r.person],
              audio_text |-> r.audio_text]
        ELSE [people |-> [ppl1 EXCEPT ![person_id] = moved], audio_text |-> NoAudio]

\* Mutant: last_seen_time is updated before the gap is measured, so that the
\* gap is always zero.
ProcessPersonLocked_SeenFirst(ppl, person_id, person_name, attendance_marked, current_time) ==
    LET ppl1 == GetOrCreatePerson(ppl, person_id, person_name, current_time)
        person == ppl1[person_id]
        seen == [person EXCEPT !.last_seen_time = current_time]
        is_reappearance == IsReappearance(current_time, seen.last_seen_time)
    IN
    IF IsLocked(current_time, seen)
    THEN [people |-> [ppl1 EXCEPT ![person_id] = seen], audio_text |-> NoAudio]
    ELSE
        LET previous_state == seen.state
            moved == [seen EXCEPT !.state =
                        ApplyStateTransitions(seen.state, attendance_marked, is_reappearance)]
        IN
        IF moved.state # previous_state
        THEN LET r == TriggerAudioForTransition(moved, previous_state, current_time) IN
             [people |-> [ppl1 EXCEPT ![person_id] = r.person],
              audio_text |-> r.audio_text]
        ELSE [people |-> [ppl1 EXCEPT ![person_id] = moved], audio_text |-> NoAudio]

\* process_person, the body under data_lock up to the call of _queue_audio:
\* the registry after it and the text to queue (NoAudio when nothing is queued)
ProcessPersonLocked(ppl, person_id, person_name, attendance_marked, current_time) ==
    LET ppl1 == GetOrCreatePerson(ppl, person_id, person_name, current_time)
        person == ppl1[person_id]
        is_reappearance == IsReappearance(current_time, person.last_seen_time)
        seen == [person EXCEPT !.last_seen_time = current_time]
    IN
    IF IsLocked(current_time, seen)
    THEN [people |-> [ppl1 EXCEPT ![person_id] = seen], audio_text |-> NoAudio]
    ELSE
        LET previous_state == seen.state
            moved == [seen EXCEPT !.state =
                        ApplyStateTransitions(seen.state, attendance_marked, is_reappearance)]
        IN
        IF moved.state # previous_state
        THEN LET r == TriggerAudioForTransition(moved, previous_state, current_time) IN
             [people |-> [ppl1 EXCEPT ![person_id] = r.person],
              audio_text |-> r.audio_text]
        ELSE [people |-> [ppl1 EXCEPT ![person_id] = moved], audio_text |-> NoAudio]

\* Mutant: appendleft for append.
QueueAudio_Front(queue, item) == <<item>> \o queue

\* _queue_audio: audio_queue.append
QueueAudio(queue, item) == Append(queue, item)

\* _process_audio_queue: audio_queue.popleft()
PopLeft(queue) == Tail(queue)

\* _process_audio_queue: the item the worker plays, audio_queue[0]
Peek(queue) == Head(queue)

\* Mutant: the global cooldown is not added.
CooldownAfter_NoCooldown(current_time) == current_time

\* _process_audio_queue: global_cooldown_until after a playback
CooldownAfter(current_time) == current_time + AUDIO_COOLDOWN_GLOBAL

\* Mutant: the comparison is inverted, the records seen after the cutoff go.
ToRemove_Inverted(ppl, cutoff_time) ==
    {pid \in DOMAIN ppl : ppl[pid].last_seen_time > cutoff_time}

\* _session_cleanup_loop: to_remove
ToRemove(ppl, cutoff_time) ==
    {pid \in DOMAIN ppl : ppl[pid].last_seen_time < cutoff_time}

\* get_person_state: the state of the record, "None" when there is none
GetPersonState(ppl, person_id) ==
    IF person_id \in DOMAIN ppl THEN ppl[person_id].state ELSE "None"

MaxRank(a, b) == IF Rank(a) >= Rank(b) THEN a ELSE b

\* ------------------------------------------------------------------------
\* Initial state: AudioHandler.__init__ has returned at time 0
\* ------------------------------------------------------------------------
Init ==
    /\ now = 0
    /\ session_active = FALSE
    /\ global_cooldown_until = 0
    /\ people = EmptyPeople
    /\ audio_queue = <<>>
    /\ audio_queue_lock = NoThread
    /\ data_lock = NoThread
    /\ audio_thread_running = TRUE
    /\ prod = [p \in Producers |-> IdleProd]
    /\ worker = IdleWorker
    /\ reaper = IdleReaper
    /\ host = IdleHost
    /\ ticks = 0
    /\ camera = IdleCamera
    /\ next_seq = 0
    /\ played = -1
    /\ in_flight = 0
    /\ since_end = NoTime
    /\ reset_since = FALSE
    /\ announced = [pid \in PersonIds |-> NoneAnnounced]
    /\ rec_ann = [pid \in PersonIds |-> NoRecAnn]
    /\ marked_seen = [pid \in PersonIds |-> FALSE]
    /\ high = [pid \in PersonIds |-> "NONE"]
    /\ lock_consumed = [pid \in PersonIds |-> NoTime]

\* The clock advances by d seconds.
Tick(d, max_ticks) ==
    /\ ticks < max_ticks
    /\ now' = now + d
    /\ ticks' = ticks + 1
    /\ since_end' = IF since_end = NoTime THEN NoTime
                    ELSE IF since_end + d >= AUDIO_COOLDOWN_GLOBAL THEN AUDIO_COOLDOWN_GLOBAL
                    ELSE since_end + d
    /\ UNCHANGED <<shared, prod, worker, reaper, host, camera, next_seq, played,
                   in_flight, reset_since, announced, rec_ann, marked_seen, high, lock_consumed>>

\* ------------------------------------------------------------------------
\* process_person, called by producer p
\* ------------------------------------------------------------------------
\* lines 176-180: the two early returns, taken without any lock; the producers
\* after the entry of p into process_person
EnterProcessPerson(p, person_id, is_recognized, attendance_marked) ==
    IF session_active /\ is_recognized
    THEN [prod EXCEPT ![p] = [IdleProd EXCEPT !.pc = "time",
                                 !.person_id = person_id,
                                 !.attendance_marked = attendance_marked]]
    ELSE prod

\* a call of process_person by producer p
PCall(p, person_id, is_recognized, attendance_marked) ==
    /\ prod[p].pc = "idle"
    /\ prod' = EnterProcessPerson(p, person_id, is_recognized, attendance_marked)
    /\ UNCHANGED <<now, ticks, camera, shared, worker, reaper, host, ghost>>

\* line 182: current_time = time.time()
PTime(p) ==
    /\ prod[p].pc = "time"
    /\ prod' = [prod EXCEPT ![p].pc = "lock", ![p].current_time = now]
    /\ UNCHANGED <<now, ticks, camera, shared, worker, reaper, host, ghost>>

\* lines 184-207 and 234-265: data_lock is acquired and the observation is
\* processed; when nothing is queued the lock is released and the call returns
PBody(p) ==
    /\ prod[p].pc = "lock"
    /\ data_lock = NoThread
    /\ LET me == prod[p]
           r == ProcessPersonLocked(people, me.person_id, NameOf(me.person_id),
                                    me.attendance_marked, me.current_time)
       IN
       /\ people' = r.people
       /\ marked_seen' = [marked_seen EXCEPT ![me.person_id] = @ \/ me.attendance_marked]
       /\ high' = [high EXCEPT ![me.person_id] =
                     IF @ = "NONE" THEN r.people[me.person_id].state
                     ELSE MaxRank(@, r.people[me.person_id].state)]
       /\ lock_consumed' = [lock_consumed EXCEPT ![me.person_id] =
                     IF /\ me.person_id \in DOMAIN people
                        /\ people[me.person_id].state = "MARKED"
                        /\ me.current_time < people[me.person_id].audio_lock_until
                        /\ me.current_time - people[me.person_id].last_seen_time
                              > REAPPEAR_THRESHOLD
                     THEN me.current_time
                     ELSE IF @ # NoTime /\ me.current_time - @ <= REAPPEAR_THRESHOLD
                     THEN me.current_time
                     ELSE NoTime]
       /\ IF r.audio_text = NoAudio
          THEN /\ prod' = [prod EXCEPT ![p] = IdleProd]
               /\ UNCHANGED data_lock
          ELSE /\ prod' = [prod EXCEPT ![p].pc = "queue", ![p].audio_text = r.audio_text]
               /\ data_lock' = p
    /\ UNCHANGED <<now, ticks, camera, session_active, global_cooldown_until, audio_queue,
                   audio_queue_lock, audio_thread_running, worker, reaper, host,
                   next_seq, played, in_flight, since_end, reset_since, announced, rec_ann>>

\* lines 271-274: _queue_audio under audio_queue_lock, then both locks are released
PQueue(p) ==
    /\ prod[p].pc = "queue"
    /\ audio_queue_lock = NoThread
    /\ LET me == prod[p] IN
       /\ audio_queue' = QueueAudio(audio_queue,
                            [text |-> me.audio_text, time |-> me.current_time, seq |-> next_seq])
       /\ announced' = [announced EXCEPT ![me.person_id][people[me.person_id].state] = @ + 1]
       /\ rec_ann' = [rec_ann EXCEPT ![me.person_id] = [n |-> @.n + 1, t |-> me.current_time]]
    /\ next_seq' = next_seq + 1
    /\ data_lock' = NoThread
    /\ prod' = [prod EXCEPT ![p] = IdleProd]
    /\ UNCHANGED <<now, ticks, camera, session_active, global_cooldown_until, people,
                   audio_queue_lock, audio_thread_running, worker, reaper, host,
                   played, in_flight, since_end, reset_since, marked_seen, high, lock_consumed>>

\* ------------------------------------------------------------------------
\* _process_audio_queue, the playback worker
\* ------------------------------------------------------------------------
\* Mutant: while True for while self.audio_thread_running.
WLoop_IgnoresFlag ==
    /\ worker.pc = "loop"
    /\ worker' = [worker EXCEPT !.pc = "lockq"]
    /\ UNCHANGED <<now, ticks, camera, shared, prod, reaper, host, ghost>>

\* lines 278-279: the loop test; the 50 ms sleep is shorter than a clock unit
WLoop ==
    /\ worker.pc = "loop"
    /\ worker' = [worker EXCEPT !.pc = IF audio_thread_running THEN "lockq" ELSE "done"]
    /\ UNCHANGED <<now, ticks, camera, shared, prod, reaper, host, ghost>>

\* line 281: with self.audio_queue_lock
WAcquire ==
    /\ worker.pc = "lockq"
    /\ audio_queue_lock = NoThread
    /\ audio_queue_lock' = "W"
    /\ worker' = [worker EXCEPT !.pc = "peek"]
    /\ UNCHANGED <<now, ticks, camera, session_active, global_cooldown_until, people, audio_queue,
                   data_lock, audio_thread_running, prod, reaper, host, ghost>>

\* Mutant: audio_callback is called inside the with block, audio_queue_lock held.
WPeek_HoldsLock ==
    /\ worker.pc = "peek"
    /\ IF audio_queue = <<>> \/ now < global_cooldown_until
       THEN /\ worker' = [worker EXCEPT !.pc = "loop"]
            /\ audio_queue_lock' = NoThread
            /\ UNCHANGED <<audio_queue, played>>
       ELSE /\ worker' = [worker EXCEPT !.pc = "call", !.audio_text = Peek(audio_queue).text]
            /\ audio_queue_lock' = "W"
            /\ played' = Peek(audio_queue).seq
            /\ audio_queue' = PopLeft(audio_queue)
    /\ UNCHANGED <<now, ticks, camera, session_active, global_cooldown_until, people,
                   data_lock, audio_thread_running, prod, reaper, host,
                   next_seq, in_flight, since_end, reset_since, announced, rec_ann,
                   marked_seen, high, lock_consumed>>

\* Mutant: the head is taken whether or not the global cooldown has passed.
WPeek_IgnoresCooldown ==
    /\ worker.pc = "peek"
    /\ audio_queue_lock' = NoThread
    /\ IF audio_queue = <<>>
       THEN /\ worker' = [worker EXCEPT !.pc = "loop"]
            /\ UNCHANGED <<audio_queue, played>>
       ELSE /\ worker' = [worker EXCEPT !.pc = "call", !.audio_text = Peek(audio_queue).text]
            /\ played' = Peek(audio_queue).seq
            /\ audio_queue' = PopLeft(audio_queue)
    /\ UNCHANGED <<now, ticks, camera, session_active, global_cooldown_until, people,
                   data_lock, audio_thread_running, prod, reaper, host,
                   next_seq, in_flight, since_end, reset_since, announced, rec_ann,
                   marked_seen, high, lock_consumed>>

\* Mutant: the cooldown test is inverted, the head is taken only while the
\* global cooldown is running.
WPeek_InvertedCooldown ==
    /\ worker.pc = "peek"
    /\ audio_queue_lock' = NoThread
    /\ IF audio_queue = <<>> \/ now >= global_cooldown_until
       THEN /\ worker' = [worker EXCEPT !.pc = "loop"]
            /\ UNCHANGED <<audio_queue, played>>
       ELSE /\ worker' = [worker EXCEPT !.pc = "call", !.audio_text = Peek(audio_queue).text]
            /\ played' = Peek(audio_queue).seq
            /\ audio_queue' = PopLeft(audio_queue)
    /\ UNCHANGED <<now, ticks, camera, session_active, global_cooldown_until, people,
                   data_lock, audio_thread_running, prod, reaper, host,
                   next_seq, in_flight, since_end, reset_since, announced, rec_ann,
                   marked_seen, high, lock_consumed>>

\* lines 282-294: empty queue or active cooldown: continue; else pop the head
WPeek ==
    /\ worker.pc = "peek"
    /\ audio_queue_lock' = NoThread
    /\ IF audio_queue = <<>> \/ now < global_cooldown_until
       THEN /\ worker' = [worker EXCEPT !.pc = "loop"]
            /\ UNCHANGED <<audio_queue, played>>
       ELSE /\ worker' = [worker EXCEPT !.pc = "call", !.audio_text = Peek(audio_queue).text]
            /\ played' = Peek(audio_queue).seq
            /\ audio_queue' = PopLeft(audio_queue)
    /\ UNCHANGED <<now, ticks, camera, session_active, global_cooldown_until, people,
                   data_lock, audio_thread_running, prod, reaper, host,
                   next_seq, in_flight, since_end, reset_since, announced, rec_ann,
                   marked_seen, high, lock_consumed>>

\* Mutant: the callback is handed to another thread and the worker goes on
\* without waiting for it to return.
WCall_Detached ==
    /\ worker.pc = "call"
    /\ worker' = [worker EXCEPT !.pc = "cool", !.audio_text = NoAudio,
                                !.after_stop = IF audio_thread_running \/ @ >= 2 THEN @ ELSE @ + 1]
    /\ in_flight' = in_flight + 1
    /\ UNCHANGED <<now, ticks, camera, shared, prod, reaper, host, next_seq, played, since_end,
                   reset_since, announced, rec_ann, marked_seen, high, lock_consumed>>

\* line 298: audio_callback is entered, with no lock held
WCall ==
    /\ worker.pc = "call"
    /\ worker' = [worker EXCEPT !.pc = "playing",
                                !.after_stop = IF audio_thread_running \/ @ >= 2 THEN @ ELSE @ + 1]
    /\ in_flight' = in_flight + 1
    /\ UNCHANGED <<now, ticks, camera, shared, prod, reaper, host, next_seq, played, since_end,
                   reset_since, announced, rec_ann, marked_seen, high, lock_consumed>>

\* line 298: audio_callback returns
WReturn ==
    /\ worker.pc = "playing"
    /\ worker' = [worker EXCEPT !.pc = "cool", !.audio_text = NoAudio, !.raised = FALSE]
    /\ in_flight' = in_flight - 1
    /\ since_end' = 0
    /\ reset_since' = FALSE
    /\ UNCHANGED <<now, ticks, camera, shared, prod, reaper, host, next_seq, played,
                   announced, rec_ann, marked_seen, high, lock_consumed>>

\* Mutant: no try/except around the call, the exception ends the worker thread.
WRaise_Propagates ==
    /\ worker.pc = "playing"
    /\ worker' = [worker EXCEPT !.pc = "done", !.audio_text = NoAudio, !.raised = TRUE]
    /\ in_flight' = in_flight - 1
    /\ since_end' = 0
    /\ reset_since' = FALSE
    /\ UNCHANGED <<now, ticks, camera, shared, prod, reaper, host, next_seq, played,
                   announced, rec_ann, marked_seen, high, lock_consumed>>

\* lines 298-300: audio_callback raises an Exception, which is caught and printed
WRaise ==
    /\ worker.pc = "playing"
    /\ worker' = [worker EXCEPT !.pc = "cool", !.audio_text = NoAudio, !.raised = TRUE]
    /\ in_flight' = in_flight - 1
    /\ since_end' = 0
    /\ reset_since' = FALSE
    /\ UNCHANGED <<now, ticks, camera, shared, prod, reaper, host, next_seq, played,
                   announced, rec_ann, marked_seen, high, lock_consumed>>

\* Mutant: the cooldown is set inside a with audio_queue_lock block, so that
\* data_lock is acquired while audio_queue_lock is held.
WCooldown_UnderQueueLock ==
    /\ worker.pc = "cool"
    /\ IF audio_queue_lock # "W"
       THEN /\ audio_queue_lock = NoThread
            /\ audio_queue_lock' = "W"
            /\ UNCHANGED <<global_cooldown_until, worker>>
       ELSE /\ data_lock = NoThread
            /\ audio_queue_lock' = NoThread
            /\ global_cooldown_until' = CooldownAfter(now)
            /\ worker' = [worker EXCEPT !.pc = "loop"]
    /\ UNCHANGED <<now, ticks, camera, session_active, people, audio_queue,
                   data_lock, audio_thread_running, prod, reaper, host, ghost>>

\* lines 303-304: the global cooldown is set under data_lock
WCooldown ==
    /\ worker.pc = "cool"
    /\ data_lock = NoThread
    /\ global_cooldown_until' = CooldownAfter(now)
    /\ worker' = [worker EXCEPT !.pc = "loop"]
    /\ UNCHANGED <<now, ticks, camera, session_active, people, audio_queue, audio_queue_lock,
                   data_lock, audio_thread_running, prod, reaper, host, ghost>>

\* ------------------------------------------------------------------------
\* _session_cleanup_loop, the reaper
\* ------------------------------------------------------------------------
\* lines 354-357: the 60 s sleep ends; an inactive session is skipped
RWake ==
    /\ reaper.pc = "sleep"
    /\ now >= reaper.wake_at
    /\ reaper' = IF session_active
                 THEN [reaper EXCEPT !.pc = "time"]
                 ELSE [reaper EXCEPT !.wake_at = now + CLEANUP_INTERVAL]
    /\ UNCHANGED <<now, ticks, camera, shared, prod, worker, host, ghost>>

\* Mutant: SESSION_TIMEOUT is not subtracted, every record seen before the
\* sweep is past the cutoff.
RTime_NoTimeout ==
    /\ reaper.pc = "time"
    /\ reaper' = [reaper EXCEPT !.pc = "lock", !.cutoff_time = now]
    /\ UNCHANGED <<now, ticks, camera, shared, prod, worker, host, ghost>>

\* lines 359-360: cutoff_time = time.time() - SESSION_TIMEOUT
RTime ==
    /\ reaper.pc = "time"
    /\ reaper' = [reaper EXCEPT !.pc = "lock", !.cutoff_time = now - SESSION_TIMEOUT]
    /\ UNCHANGED <<now, ticks, camera, shared, prod, worker, host, ghost>>

\* lines 362-372: the sweep under data_lock, then the next sleep starts
RSweep ==
    /\ reaper.pc = "lock"
    /\ data_lock = NoThread
    /\ LET to_remove == ToRemove(people, reaper.cutoff_time) IN
       /\ people' = [pid \in DOMAIN people \ to_remove |-> people[pid]]
       /\ rec_ann' = [pid \in PersonIds |-> IF pid \in to_remove THEN NoRecAnn ELSE rec_ann[pid]]
       /\ lock_consumed' = [pid \in PersonIds |->
                               IF pid \in to_remove THEN NoTime ELSE lock_consumed[pid]]
    /\ reaper' = [IdleReaper EXCEPT !.wake_at = now + CLEANUP_INTERVAL]
    /\ UNCHANGED <<now, ticks, camera, session_active, global_cooldown_until, audio_queue,
                   audio_queue_lock, data_lock, audio_thread_running, prod, worker, host,
                   next_seq, played, in_flight, since_end, reset_since, announced,
                   marked_seen, high>>

\* ------------------------------------------------------------------------
\* start_session, end_session and shutdown, called by the host thread
\* ------------------------------------------------------------------------
\* lines 134-137 (active = TRUE) and 146-149 (active = FALSE): under data_lock
\* the flag is set, the registry cleared and the global cooldown reset
ResetSession(active, next_pc) ==
    /\ data_lock = NoThread
    /\ data_lock' = "C"
    /\ session_active' = active
    /\ people' = EmptyPeople
    /\ global_cooldown_until' = 0
    /\ host' = [host EXCEPT !.pc = next_pc]
    /\ announced' = [pid \in PersonIds |-> NoneAnnounced]
    /\ rec_ann' = [pid \in PersonIds |-> NoRecAnn]
    /\ marked_seen' = [pid \in PersonIds |-> FALSE]
    /\ high' = [pid \in PersonIds |-> "NONE"]
    /\ lock_consumed' = [pid \in PersonIds |-> NoTime]
    /\ reset_since' = (since_end # NoTime)
    /\ UNCHANGED <<now, ticks, camera, audio_queue, audio_queue_lock, audio_thread_running,
                   prod, worker, reaper, next_seq, played, in_flight, since_end>>

\* start_session, lines 132-137
HStartSession ==
    /\ host.pc = "idle"
    /\ ResetSession(TRUE, "start_q")

\* end_session, lines 144-149; also the end_session() call of shutdown, line 383
HEndSession ==
    /\ host.pc \in {"idle", "end"}
    /\ ResetSession(FALSE, "end_q")

\* Mutant: the pending announcements are left in the queue.
HClearQueue_KeepsQueue ==
    /\ host.pc \in {"start_q", "end_q"}
    /\ audio_queue_lock = NoThread
    /\ data_lock' = NoThread
    /\ host' = IdleHost
    /\ UNCHANGED <<now, ticks, camera, session_active, global_cooldown_until, people, audio_queue,
                   audio_queue_lock, audio_thread_running, prod, worker, reaper,
                   next_seq, played, in_flight, since_end, reset_since, announced,
                   rec_ann, marked_seen, high, lock_consumed>>

\* lines 139-142 and 151-154: the queue is cleared under audio_queue_lock,
\* then both locks are released and the call returns
HClearQueue ==
    /\ host.pc \in {"start_q", "end_q"}
    /\ audio_queue_lock = NoThread
    /\ audio_queue' = <<>>
    /\ data_lock' = NoThread
    /\ host' = IdleHost
    /\ next_seq' = 0
    /\ played' = -1
    /\ UNCHANGED <<now, ticks, camera, session_active, global_cooldown_until, people,
                   audio_queue_lock, audio_thread_running, prod, worker, reaper,
                   in_flight, since_end, reset_since, announced, rec_ann, marked_seen, high, lock_consumed>>

\* shutdown, lines 380-381: the stop flag is cleared without any lock
HShutdown ==
    /\ host.pc = "idle"
    /\ audio_thread_running' = FALSE
    /\ host' = [host EXCEPT !.pc = "join", !.join_from = now]
    /\ UNCHANGED <<now, ticks, camera, session_active, global_cooldown_until, people, audio_queue,
                   audio_queue_lock, data_lock, prod, worker, reaper, ghost>>

\* shutdown, line 382: join returns when the worker has left its loop or after 2 s
HJoin ==
    /\ host.pc = "join"
    /\ worker.pc = "done" \/ now >= host.join_from + JOIN_TIMEOUT
    /\ host' = [host EXCEPT !.pc = "end", !.join_from = 0]
    /\ UNCHANGED <<now, ticks, camera, shared, prod, worker, reaper, ghost>>

\* ------------------------------------------------------------------------
\* run_camera_attendance (src/attendance.py), the capture loop; it is producer
\* "p1" and the host thread of its AudioHandler
\* ------------------------------------------------------------------------
\* Mutant: the flag is taken from the attendance sheet of the day.
WasMarkedToday_InSheet(student_id, recognized_today, sheet) == student_id \in sheet

\* line 222: was_marked_today = student_id in recognized_today
WasMarkedToday(student_id, recognized_today, sheet) == student_id \in recognized_today

\* excel_handler.add_attendance_entry: success and the sheet after the call;
\* outcome "error" is an exception while the sheet is read or saved,
\* "unchecked" an exception inside check_duplicate_entry, which then reports
\* no duplicate
AddAttendanceEntry(sheet, student_id, outcome) ==
    IF outcome = "error" THEN [success |-> FALSE, sheet |-> sheet]
    ELSE IF outcome = "ok" /\ student_id \in sheet THEN [success |-> FALSE, sheet |-> sheet]
    ELSE [success |-> TRUE, sheet |-> sheet \cup {student_id}]

\* lines 155-161: a run begins; the sheet of the day is what earlier runs left
CamInit ==
    /\ camera.pc \in {"idle", "start", "frame"}
    /\ ~session_active
    /\ host.pc = "idle"
    /\ prod["p1"].pc = "idle"
    /\ camera' = [IdleCamera EXCEPT !.pc = "start", !.sheet = camera.sheet]
    /\ UNCHANGED <<now, ticks, shared, prod, worker, reaper, host, ghost>>

\* lines 179 and 216-228: a processed frame matches student_id and
\* process_person is called with the flag
CamObserve(student_id) ==
    /\ camera.pc \in {"start", "frame"}
    /\ session_active
    /\ host.pc = "idle"
    /\ prod["p1"].pc = "idle"
    /\ LET was_marked_today ==
              WasMarkedToday(student_id, camera.recognized_today, camera.sheet)
       IN
       /\ camera' = [camera EXCEPT !.pc = "call", !.student_id = student_id,
                                   !.was_marked_today = was_marked_today,
                                   !.current_time = now]
       /\ prod' = EnterProcessPerson("p1", student_id, TRUE, was_marked_today)
    /\ UNCHANGED <<now, ticks, shared, worker, reaper, host, ghost>>

\* lines 237-258: process_person has returned; inside the recognition cooldown
\* the frame ends, else add_attendance_entry is called and the tracking
\* variables are updated on success
CamMark(outcome) ==
    /\ camera.pc = "call"
    /\ prod["p1"].pc = "idle"
    /\ LET sid == camera.student_id
           r == AddAttendanceEntry(camera.sheet, sid, outcome)
       IN
       IF /\ camera.cooldown_tracker[sid] # NoTime
          /\ camera.current_time - camera.cooldown_tracker[sid] < RECOGNITION_COOLDOWN
       THEN camera' = [camera EXCEPT !.pc = "frame", !.just[sid] = FALSE]
       ELSE IF r.success
       THEN camera' = [camera EXCEPT !.pc = "frame",
                                     !.sheet = r.sheet,
                                     !.cooldown_tracker[sid] = camera.current_time,
                                     !.recognized_today = @ \cup {sid},
                                     !.recorded = @ \cup {sid},
                                     !.just[sid] = TRUE]
       ELSE camera' = [camera EXCEPT !.pc = "frame", !.sheet = r.sheet, !.just[sid] = FALSE]
    /\ UNCHANGED <<now, ticks, shared, prod, worker, reaper, host, ghost>>

\* ------------------------------------------------------------------------
\* Specifications
\* ------------------------------------------------------------------------
\* Spec: two producers observing one person race with each other, with the
\* playback worker and with the session operations.
Next ==
    \/ \E d \in Deltas : Tick(d, MaxTicks)
    \/ \E p \in Producers, is_recognized, attendance_marked \in BOOLEAN :
          PCall(p, "S1", is_recognized, attendance_marked)
    \/ \E p \in Producers : PTime(p)
    \/ \E p \in Producers : PBody(p)
    \/ \E p \in Producers : PQueue(p)
    \/ WLoop
    \/ WAcquire
    \/ WPeek
    \/ WCall
    \/ WReturn
    \/ WRaise
    \/ WCooldown
    \/ HStartSession
    \/ HEndSession
    \/ HClearQueue

Spec == Init /\ [][Next]_vars

\* SpecPair: two producers observing two persons at one instant, the playback
\* worker and start_session.
NextPair ==
    \/ \E p \in Producers, person_id \in PersonIds, attendance_marked \in BOOLEAN :
          PCall(p, person_id, TRUE, attendance_marked)
    \/ \E p \in Producers : PTime(p)
    \/ \E p \in Producers : PBody(p)
    \/ \E p \in Producers : PQueue(p)
    \/ WLoop
    \/ WAcquire
    \/ WPeek
    \/ WCall
    \/ WReturn
    \/ WRaise
    \/ WCooldown
    \/ HStartSession
    \/ HClearQueue

SpecPair == Init /\ [][NextPair]_vars

\* SpecLong: one producer observes one person over a long stretch of time, with
\* the reaper sweeping and the session operations in between.
NextLong ==
    \/ \E d \in DeltasLong : Tick(d, MaxTicksLong)
    \/ \E is_recognized, attendance_marked \in BOOLEAN :
          PCall("p1", "S1", is_recognized, attendance_marked)
    \/ PTime("p1")
    \/ PBody("p1")
    \/ PQueue("p1")
    \/ RWake
    \/ RTime
    \/ RSweep
    \/ HStartSession
    \/ HEndSession
    \/ HClearQueue

SpecLong == Init /\ [][NextLong]_vars

\* SpecEvict: one person is observed, leaves for longer than SESSION_TIMEOUT
\* and comes back; every process_person call returns before the clock advances.
NextEvict ==
    \/ \E d \in DeltasEvict : prod["p1"].pc = "idle" /\ Tick(d, MaxTicksEvict)
    \/ \E attendance_marked \in BOOLEAN : PCall("p1", "S1", TRUE, attendance_marked)
    \/ PTime("p1")
    \/ PBody("p1")
    \/ PQueue("p1")
    \/ RWake
    \/ RTime
    \/ RSweep
    \/ HStartSession
    \/ HClearQueue

SpecEvict == Init /\ [][NextEvict]_vars

\* SpecExample: a session starts at t = 0 and one person is observed at every
\* instant the clock reaches, attendance_marked being false at t = 0 and true
\* afterwards; the playback worker runs alongside.
NextExample ==
    \/ \E d \in DeltasExample :
          /\ prod["p1"].pc = "idle"
          /\ "S1" \in DOMAIN people
          /\ people["S1"].last_seen_time = now
          /\ Tick(d, MaxTicksExample)
    \/ PCall("p1", "S1", TRUE, now > 0)
    \/ PTime("p1")
    \/ PBody("p1")
    \/ PQueue("p1")
    \/ WLoop
    \/ WAcquire
    \/ WPeek
    \/ WCall
    \/ WReturn
    \/ WRaise
    \/ WCooldown
    \/ (now = 0 /\ HStartSession)
    \/ HClearQueue

SpecExample == Init /\ [][NextExample]_vars

\* SpecCamera: runs of the capture loop, one after the other on the same day;
\* each run starts a session, processes frames and ends the session.
NextCamera ==
    \/ \E d \in DeltasCamera : Tick(d, MaxTicksCamera)
    \/ CamInit
    \/ (camera.pc = "start" /\ ~session_active /\ HStartSession)
    \/ \E student_id \in PersonIds : CamObserve(student_id)
    \/ PTime("p1")
    \/ PBody("p1")
    \/ PQueue("p1")
    \/ \E outcome \in {"ok", "error", "unchecked"} : CamMark(outcome)
    \/ (camera.pc \in {"start", "frame"} /\ session_active /\ HEndSession)
    \/ HClearQueue

SpecCamera == Init /\ [][NextCamera]_vars

\* the steps of the two background threads
WorkerNext == WLoop \/ WAcquire \/ WPeek \/ WCall \/ WReturn \/ WRaise \/ WCooldown
ReaperNext == RWake \/ RTime \/ RSweep

\* SpecShutdown: the host starts and ends sessions and calls shutdown while one
\* person is observed; both background threads run and are scheduled fairly,
\* and a session operation or shutdown that has begun runs to its end. The
\* worker waits for data_lock at line 303 while other threads take and release
\* it; a lock that is released again and again is eventually won, hence SF.
NextShutdown ==
    \/ \E d \in DeltasShutdown : Tick(d, MaxTicksShutdown)
    \/ PCall("p1", "S1", TRUE, FALSE)
    \/ PTime("p1")
    \/ PBody("p1")
    \/ PQueue("p1")
    \/ WLoop
    \/ WAcquire
    \/ WPeek
    \/ WCall
    \/ WReturn
    \/ WRaise
    \/ WCooldown
    \/ RWake
    \/ RTime
    \/ RSweep
    \/ HStartSession
    \/ HEndSession
    \/ HClearQueue
    \/ HShutdown
    \/ HJoin

SpecShutdown ==
    /\ Init
    /\ [][NextShutdown]_vars
    /\ SF_vars(WorkerNext)
    /\ WF_vars(ReaperNext)
    /\ WF_vars(PTime("p1") \/ PBody("p1") \/ PQueue("p1"))
    /\ WF_vars(HClearQueue \/ HJoin \/ (host.pc = "end" /\ HEndSession))

\* ------------------------------------------------------------------------
\* Properties
\* ------------------------------------------------------------------------
\* The clock advances by one second while an announcement waits for the global
\* cooldown to pass.
Elapse ==
    /\ audio_queue # <<>>
    /\ now < global_cooldown_until
    /\ now' = now + 1
    /\ since_end' = IF since_end = NoTime THEN NoTime
                    ELSE IF since_end + 1 >= AUDIO_COOLDOWN_GLOBAL THEN AUDIO_COOLDOWN_GLOBAL
                    ELSE since_end + 1
    /\ UNCHANGED <<ticks, camera, shared, prod, worker, reaper, host, next_seq, played,
                   in_flight, reset_since, announced, rec_ann, marked_seen, high,
                   lock_consumed>>

\* SpecLive: one session is started and never ended, two persons are observed,
\* the worker plays. The clock keeps advancing while an announcement waits for
\* the global cooldown, the worker is scheduled fairly, and a call that holds
\* data_lock runs to its end.
NextLive ==
    \/ Elapse
    \/ \E person_id \in PersonIds : PCall("p1", person_id, TRUE, FALSE)
    \/ PTime("p1")
    \/ PBody("p1")
    \/ PQueue("p1")
    \/ WLoop
    \/ WAcquire
    \/ WPeek
    \/ WCall
    \/ WReturn
    \/ WRaise
    \/ WCooldown
    \/ (~session_active /\ HStartSession)
    \/ HClearQueue

SpecLive ==
    /\ Init
    /\ [][NextLive]_vars
    /\ WF_vars(WorkerNext)
    /\ WF_vars(Elapse)
    /\ WF_vars(PQueue("p1"))
    /\ WF_vars(HClearQueue)

\* the step in which the worker enters audio_callback
PlaybackStarts == worker.pc = "call" /\ worker'.pc # "call"

\* the step in which producer p runs the body of process_person under data_lock
Processes(p) == prod[p].pc = "lock" /\ prod'[p].pc # "lock"

\* C1 as stated: whenever a playback starts after an earlier one has finished,
\* at least AUDIO_COOLDOWN_GLOBAL seconds have passed since that one finished,
\* session resets in between included.
C1_GlobalCooldownAlways ==
    [][(PlaybackStarts /\ since_end # NoTime) => since_end >= AUDIO_COOLDOWN_GLOBAL]_vars

\* C1 as amended: the same, provided no start_session or end_session has reset
\* the global cooldown since the earlier playback finished.
C1_GlobalCooldownWithoutReset ==
    [][(PlaybackStarts /\ since_end # NoTime /\ ~reset_since)
          => since_end >= AUDIO_COOLDOWN_GLOBAL]_vars

\* C1 witness: an item has been dequeued for a second playback, the cooldown
\* after the first one having passed with no session reset in between.
C1_Witness ==
    worker.pc = "call" /\ since_end = AUDIO_COOLDOWN_GLOBAL /\ ~reset_since

\* C2: at most one call of audio_callback is in flight, and it is the worker's.
C2_OneInFlight ==
    /\ in_flight \in {0, 1}
    /\ in_flight = 1 <=> worker.pc = "playing"

\* C2 witness: a playback is in flight while another item is queued and a
\* producer is inside process_person.
C2_Witness ==
    /\ in_flight = 1
    /\ audio_queue # <<>>
    /\ \E p \in Producers : prod[p].pc = "lock"

\* C3: the queue holds its items in the order they were enqueued, and every
\* item still queued was enqueued after the last item the worker took.
C3_FifoOrder ==
    /\ \A i \in 1..Len(audio_queue) : played < audio_queue[i].seq
    /\ \A i, j \in 1..Len(audio_queue) : i < j => audio_queue[i].seq < audio_queue[j].seq

\* C3 witness: announcements were enqueued for two persons; the worker has
\* taken the one enqueued first and the later one is pending.
C3_Witness ==
    /\ played >= 0
    /\ audio_queue # <<>>
    /\ \A pid \in PersonIds : rec_ann[pid].n > 0

\* C4 as stated: within one session the "already marked" announcement is
\* enqueued at most once per person_id.
C4_IgnoredOncePerSession ==
    \A pid \in PersonIds : announced[pid]["IGNORED"] <= 1

\* C5 as stated: whenever no session operation is running and session_active
\* is false, the registry and the queue are empty.
C5_InactiveIsEmpty ==
    (host.pc = "idle" /\ ~session_active) => (DOMAIN people = {} /\ audio_queue = <<>>)

\* C6: two successive announcements enqueued for one PersonRecord have
\* observation timestamps at least AUDIO_COOLDOWN_PER_PERSON apart.
C6_PerPersonSpacing ==
    [][\A pid \in PersonIds :
          (rec_ann'[pid].n = rec_ann[pid].n + 1 /\ rec_ann[pid].n > 0)
             => rec_ann'[pid].t - rec_ann[pid].t >= AUDIO_COOLDOWN_PER_PERSON]_vars

\* C6 witness: a record has two announcements, and an observation whose
\* timestamp was read before the second one was processed after it and dropped.
C6_Witness ==
    \E pid \in DOMAIN people :
        /\ rec_ann[pid].n >= 2
        /\ people[pid].last_seen_time < rec_ann[pid].t

\* C7: an observation whose timestamp is before the record's audio_lock_until
\* changes nothing but last_seen_time and enqueues nothing, whatever
\* attendance_marked and the gap since the last observation are.
C7_LockedObservationDropped ==
    [][\A p \in Producers :
          (/\ Processes(p)
           /\ prod[p].person_id \in DOMAIN people
           /\ prod[p].current_time < people[prod[p].person_id].audio_lock_until)
          => /\ prod'[p].pc = "idle"
             /\ audio_queue' = audio_queue
             /\ people' = [people EXCEPT ![prod[p].person_id].last_seen_time =
                                              prod[p].current_time]]_vars

\* C7 witness: an attendance_marked=True observation was processed inside the
\* lock window of a MARKING record, which is still MARKING.
C7_Witness ==
    \E pid \in DOMAIN people :
        /\ people[pid].state = "MARKING"
        /\ marked_seen[pid]
        /\ people[pid].last_seen_time < people[pid].audio_lock_until
        /\ people[pid].last_seen_time # rec_ann[pid].t

\* the announcements enqueued or about to be enqueued for the record of pid
RecordAnnouncements(pid) ==
    rec_ann[pid].n + Cardinality({p \in Producers :
                                    prod[p].pc = "queue" /\ prod[p].person_id = pid})

\* the same for the whole session
SessionAnnouncements(pid) ==
    announced[pid]["MARKING"] + announced[pid]["MARKED"] + announced[pid]["IGNORED"]
    + Cardinality({p \in Producers : prod[p].pc = "queue" /\ prod[p].person_id = pid})

\* C8 as stated: while no attendance_marked=True observation of a person has
\* been processed in the session, the person's record is MARKING and exactly
\* one announcement was enqueued for the person in the session.
C8_OneAnnouncementPerSession ==
    \A pid \in PersonIds :
        (~marked_seen[pid] /\ high[pid] # "NONE")
        => /\ pid \in DOMAIN people => people[pid].state = "MARKING"
           /\ SessionAnnouncements(pid) = 1

\* C8 as amended: ... exactly one announcement was enqueued for the record,
\* and all announcements of the session are "Marking attendance".
C8_OneAnnouncementPerRecord ==
    \A pid \in PersonIds :
        (~marked_seen[pid] /\ high[pid] # "NONE")
        => /\ pid \in DOMAIN people =>
                 (people[pid].state = "MARKING" /\ RecordAnnouncements(pid) = 1)
           /\ announced[pid]["MARKED"] = 0
           /\ announced[pid]["IGNORED"] = 0

\* C8 witness: a record with one announcement that was observed again after
\* its lock window, attendance_marked false, and is still MARKING.
C8_Witness ==
    \E pid \in DOMAIN people :
        /\ ~marked_seen[pid]
        /\ people[pid].state = "MARKING"
        /\ rec_ann[pid].n = 1
        /\ people[pid].last_seen_time >= people[pid].audio_lock_until

\* C9: an observation of a MARKED record with a gap of at most
\* REAPPEAR_THRESHOLD since last_seen_time leaves it MARKED and enqueues nothing.
C9_NoReappearanceStaysMarked ==
    [][\A p \in Producers :
          (/\ Processes(p)
           /\ prod[p].person_id \in DOMAIN people
           /\ people[prod[p].person_id].state = "MARKED"
           /\ prod[p].current_time - people[prod[p].person_id].last_seen_time
                 <= REAPPEAR_THRESHOLD)
          => /\ people'[prod[p].person_id].state = "MARKED"
             /\ prod'[p].pc = "idle"
             /\ audio_queue' = audio_queue]_vars

\* C9 witness: a MARKED record was observed after its lock window and is still
\* MARKED.
C9_Witness ==
    \E pid \in DOMAIN people :
        /\ people[pid].state = "MARKED"
        /\ people[pid].last_seen_time >= people[pid].audio_lock_until

\* C10 as stated: within a session the state of a person_id is never below a
\* state the person_id had earlier in the session.
C10_SessionMonotonic ==
    \A pid \in DOMAIN people :
        high[pid] # "NONE" => Rank(people[pid].state) >= Rank(high[pid])

\* C10 as amended: the state of a PersonRecord never moves backward and
\* advances by at most one step per observation; a record is MARKING after the
\* observation that created it.
C10_RecordMonotonic ==
    [][\A pid \in PersonIds :
          /\ (pid \in DOMAIN people /\ pid \in DOMAIN people')
                => Rank(people'[pid].state) - Rank(people[pid].state) \in {0, 1}
          /\ (pid \notin DOMAIN people /\ pid \in DOMAIN people')
                => people'[pid].state = "MARKING"]_vars

\* C10 witness: a record that went through all the states, one announcement
\* for each step.
C10_Witness ==
    \E pid \in DOMAIN people :
        /\ people[pid].state = "IGNORED"
        /\ rec_ann[pid].n = 3

SessionOpReturns == host.pc \in {"start_q", "end_q"} /\ host'.pc = "idle"

\* C12: when start_session or end_session returns, the registry and the queue
\* are empty and get_person_state gives None for every person.
C12_EmptyAfterSessionOp ==
    [][SessionOpReturns
          => /\ DOMAIN people' = {}
             /\ audio_queue' = <<>>
             /\ \A pid \in PersonIds : GetPersonState(people', pid) = "None"]_vars

\* C12 witness: a session operation has returned after a playback had ended,
\* and left the registry and the queue empty.
C12_Witness ==
    /\ host.pc = "idle"
    /\ reset_since
    /\ DOMAIN people = {}
    /\ audio_queue = <<>>

\* the step in which the reaper finishes a sweep
Sweeps == reaper.pc = "lock" /\ reaper'.pc = "sleep"

\* C13 as stated: an observation that comes more than SESSION_TIMEOUT after the
\* person was last seen is processed as a first observation.
C13_AbsentLongStartsOver ==
    [][\A p \in Producers :
          (/\ Processes(p)
           /\ prod[p].person_id \in DOMAIN people
           /\ prod[p].current_time - people[prod[p].person_id].last_seen_time
                 > SESSION_TIMEOUT)
          => /\ people'[prod[p].person_id].state = "MARKING"
             /\ prod'[p].audio_text = <<"Marking attendance">>]_vars

\* C13 as amended: a sweep of the reaper removes exactly the records last seen
\* before its cutoff, and an observation of a person who has no record is
\* processed as a first observation.
C13_SweptStartsOver ==
    [][/\ Sweeps =>
            /\ DOMAIN people' =
                  {pid \in DOMAIN people : people[pid].last_seen_time >= reaper.cutoff_time}
            /\ \A pid \in DOMAIN people' : people'[pid] = people[pid]
       /\ \A p \in Producers :
            (Processes(p) /\ prod[p].person_id \notin DOMAIN people)
            => /\ people'[prod[p].person_id].state = "MARKING"
               /\ people'[prod[p].person_id].last_seen_time = prod[p].current_time
               /\ prod'[p].pc = "queue"
               /\ prod'[p].audio_text = <<"Marking attendance">>]_vars

\* C13 witness: a person who had reached MARKED in the session has a record
\* that is MARKING again, created after the sweep removed the earlier one.
C13_Witness ==
    \E pid \in DOMAIN people :
        /\ Rank(high[pid]) >= Rank("MARKED")
        /\ people[pid].state = "MARKING"
        /\ rec_ann[pid].n = 1

\* the third observation of the example: the first one processed at t = 10,
\* the one before it having come at t = 1
ExampleThird ==
    /\ Processes("p1")
    /\ prod["p1"].current_time = 10
    /\ "S1" \in DOMAIN people
    /\ people["S1"].last_seen_time = 1

\* C14 as stated: after (S1, attendance_marked false) at t = 0 and (S1, true)
\* at t = 1, the observation (S1, true) at t = 10 moves the record to IGNORED
\* and hands the "already marked" message to the queue.
C14_ThirdObservationIgnores ==
    [][ExampleThird
          => /\ people'["S1"].state = "IGNORED"
             /\ prod'["p1"].audio_text =
                   <<"Alice", ", your attendance is already marked. Only once per session.">>]_vars

\* C14 as amended: the observation at t = 1 falls inside the lock window of
\* the first one and is dropped, so the observation at t = 10 moves the record
\* from MARKING to MARKED and the queue gains "Greetings Alice" exactly once.
C14_ThirdObservationMarks ==
    [][/\ ExampleThird
            => /\ people["S1"].state = "MARKING"
               /\ people'["S1"].state = "MARKED"
               /\ prod'["p1"].pc = "queue"
               /\ prod'["p1"].audio_text = <<"Greetings ", "Alice">>
       /\ (prod["p1"].pc = "queue" /\ prod["p1"].current_time = 10 /\ prod'["p1"].pc = "idle")
            => /\ audio_queue' = Append(audio_queue,
                                    [text |-> <<"Greetings ", "Alice">>, time |-> 10,
                                     seq |-> next_seq])
               /\ announced'["S1"] = [NoneAnnounced EXCEPT !["MARKING"] = 1, !["MARKED"] = 1]]_vars

\* C14 witness: the record is MARKED by the observation at t = 10, its second
\* announcement.
C14_Witness ==
    /\ "S1" \in DOMAIN people
    /\ people["S1"].state = "MARKED"
    /\ rec_ann["S1"] = [n |-> 2, t |-> 10]

\* C15: while audio_callback is running the worker holds neither
\* audio_queue_lock nor data_lock.
C15_PlaysWithoutLocks ==
    worker.pc = "playing" => (audio_queue_lock # "W" /\ data_lock # "W")

\* C15 witness: during a playback, after a session operation cleared the queue
\* under both locks, a producer holds data_lock inside process_person.
C15_Witness ==
    /\ worker.pc = "playing"
    /\ played = -1
    /\ data_lock \in Producers

\* the step in which audio_callback ends with an exception
CallbackRaises == worker.pc = "playing" /\ worker'.pc # "playing" /\ worker'.raised

\* C16: when audio_callback raises, the worker goes on to the cooldown with the
\* queue, the registry and the locks as they were, the item it took stays
\* removed, and its next step sets the global cooldown and returns to the loop.
C16_FailedPlaybackConsumed ==
    [][/\ CallbackRaises
            => /\ worker'.pc = "cool"
               /\ audio_queue' = audio_queue
               /\ \A i \in 1..Len(audio_queue') : audio_queue'[i].seq # played
               /\ people' = people
               /\ UNCHANGED <<audio_queue_lock, data_lock, audio_thread_running>>
       /\ (worker.pc = "cool" /\ worker.raised /\ worker'.pc # "cool")
            => /\ worker'.pc = "loop"
               /\ global_cooldown_until' = now + AUDIO_COOLDOWN_GLOBAL
               /\ audio_queue' = audio_queue]_vars

\* C16 witness: after a playback that raised, the worker is playing the next item.
C16_Witness ==
    worker.pc = "playing" /\ worker.raised

\* the step in which the worker removes the head of the queue
WorkerTakes == worker.pc = "peek" /\ worker'.pc = "call"

\* C20: with no session operation since the last playback ended, the worker
\* takes an item only when AUDIO_COOLDOWN_GLOBAL has passed since that end, and
\* a peek that takes nothing leaves the queue as it was.
C20_CooldownFromPlaybackEnd ==
    [][/\ (WorkerTakes /\ since_end # NoTime /\ ~reset_since)
            => since_end >= AUDIO_COOLDOWN_GLOBAL
       /\ (worker.pc = "peek" /\ worker'.pc = "loop") => audio_queue' = audio_queue
       /\ (worker.pc = "peek" /\ audio_queue # <<>> /\ now < global_cooldown_until)
            => worker'.pc \in {"peek", "loop"}]_vars

\* C20 witness: the worker looks at a pending head item while the cooldown of
\* the previous playback is still running.
C20_Witness ==
    /\ worker.pc = "peek"
    /\ audio_queue # <<>>
    /\ since_end # NoTime
    /\ ~reset_since
    /\ now < global_cooldown_until

\* C17 as stated: once shutdown has cleared the running flag, the playback
\* worker and the reaper both come to a stop.
C17_BackgroundTasksStop ==
    [](~audio_thread_running => <>(worker.pc = "done" /\ reaper.pc = "done"))

\* the state an observation of pid starts from: NEW when it creates the record
StateBefore(pid) == IF pid \in DOMAIN people THEN people[pid].state ELSE "NEW"

\* the step in which producer p returns from _queue_audio
Enqueues(p) == prod[p].pc = "queue" /\ prod'[p].pc = "idle"

\* C18 as stated: a fired transition hands the queue the text of its template,
\* "Marking attendance", "Greetings, {name}" or "{name}, your attendance is
\* already marked. Only once per session.", and an observation that fires no
\* transition hands it nothing.
C18_TemplatesAsStated ==
    [][\A p \in Producers :
          Processes(p) =>
             LET pid == prod[p].person_id
                 before == StateBefore(pid)
                 after == people'[pid].state
             IN IF before = after
                THEN prod'[p].pc = "idle" /\ audio_queue' = audio_queue
                ELSE /\ prod'[p].pc = "queue"
                     /\ prod'[p].audio_text =
                          CASE after = "MARKING" -> <<"Marking attendance">>
                            [] after = "MARKED" -> <<"Greetings, ", NameOf(pid)>>
                            [] after = "IGNORED" ->
                                 <<NameOf(pid),
                                   ", your attendance is already marked. Only once per session.">>]_vars

\* C18 as amended: the same with the text "Greetings {name}", which has no
\* comma; the text is appended to the queue once, as its last item.
C18_TemplatesOfCode ==
    [][\A p \in Producers :
          /\ Processes(p) =>
               LET pid == prod[p].person_id
                   before == StateBefore(pid)
                   after == people'[pid].state
               IN IF before = after
                  THEN prod'[p].pc = "idle" /\ audio_queue' = audio_queue
                  ELSE /\ prod'[p].pc = "queue"
                       /\ audio_queue' = audio_queue
                       /\ prod'[p].audio_text =
                            CASE after = "MARKING" -> <<"Marking attendance">>
                              [] after = "MARKED" -> <<"Greetings ", NameOf(pid)>>
                              [] after = "IGNORED" ->
                                   <<NameOf(pid),
                                     ", your attendance is already marked. Only once per session.">>
          /\ Enqueues(p) =>
               /\ Len(audio_queue') = Len(audio_queue) + 1
               /\ \A i \in 1..Len(audio_queue) : audio_queue'[i] = audio_queue[i]
               /\ audio_queue'[Len(audio_queue')].text = prod[p].audio_text]_vars

\* C18 witness: the queue holds the three announcements of one record, in the
\* order of its transitions.
C18_Witness ==
    /\ Len(audio_queue) = 3
    /\ audio_queue[1].text = <<"Marking attendance">>
    /\ audio_queue[2].text = <<"Greetings ", "Alice">>
    /\ audio_queue[3].text =
          <<"Alice", ", your attendance is already marked. Only once per session.">>

\* the steps in which the capture loop calls process_person, and in which it
\* finishes the frame
CamObserves == camera.pc \in {"start", "frame"} /\ camera'.pc = "call"
CamMarks == camera.pc = "call" /\ camera'.pc = "frame"

\* C19 as stated: the flag passed for a student is true only on an observation
\* for which the attendance store has just recorded the student, in the frame
\* of the observation or in the student's frame before it.
C19_FlagOnlyWhenJustRecorded ==
    [][CamMarks =>
          (camera.was_marked_today
             => (camera.just[camera.student_id] \/ camera'.just[camera.student_id]))]_vars

\* C19 as amended: the flag is true exactly when add_attendance_entry accepted
\* the student in an earlier frame of the same run; it is false in the frame
\* in which the run records the student for the first time.
C19_FlagWhenRecordedInRun ==
    [][/\ CamObserves
            => (camera'.was_marked_today <=> camera'.student_id \in camera.recorded)
       /\ (CamMarks /\ camera.student_id \notin camera.recorded
                    /\ camera.student_id \in camera'.recorded)
            => ~camera.was_marked_today]_vars

\* C19 witness: process_person is called with the flag true in a frame that
\* follows one in which the store did not record the student.
C19_Witness ==
    /\ camera.pc = "call"
    /\ camera.was_marked_today
    /\ ~camera.just[camera.student_id]

\* ------------------------------------------------------------------------
\* C21..C30
\* ------------------------------------------------------------------------
\* C21: every observation that process_person processes leaves its own
\* timestamp in last_seen_time, locked or not and whether or not a transition
\* fires; the reappearance test uses the last_seen_time held before that
\* update, so that an unlocked MARKED record goes to IGNORED exactly when the
\* gap to the previous observation exceeds REAPPEAR_THRESHOLD, and the
\* observation that creates a record is never a reappearance.
C21_LastSeenThenReappearance ==
    [][\A p \in Producers :
          Processes(p) =>
            LET pid == prod[p].person_id
                ct == prod[p].current_time
                existed == pid \in DOMAIN people
            IN
            /\ pid \in DOMAIN people'
            /\ people'[pid].last_seen_time = ct
            /\ ~existed => people'[pid].state = "MARKING"
            /\ (/\ existed
                /\ people[pid].state = "MARKED"
                /\ ~(ct < people[pid].audio_lock_until))
               => (people'[pid].state = "IGNORED"
                      <=> ct - people[pid].last_seen_time > REAPPEAR_THRESHOLD)]_vars

\* C21 witness: a record went to IGNORED on a reappearance and holds the
\* timestamp of that observation as last_seen_time.
C21_Witness ==
    \E pid \in DOMAIN people :
        /\ people[pid].state = "IGNORED"
        /\ people[pid].has_triggered_ignored_audio
        /\ rec_ann[pid].n >= 1
        /\ people[pid].last_seen_time = rec_ann[pid].t

\* C22: once an announcement has been enqueued for a person, the record's
\* last_audio_time is the timestamp of the most recent announcement enqueued
\* for that record.
C22_LastAudioTimeRecorded ==
    \A pid \in DOMAIN people :
        rec_ann[pid].n > 0 => people[pid].last_audio_time = rec_ann[pid].t

\* C23: the reaper starts a sweep only when it found the session active, a
\* sweep removes a record only if its last_seen_time is more than
\* SESSION_TIMEOUT before the timestamp the sweep read (so never a record
\* observed within the last SESSION_TIMEOUT seconds), and no step of the
\* reaper changes a record it keeps, the queue, the global cooldown or the
\* session flag.
C23_ReaperRemovesOnlyExpired ==
    [][/\ (reaper.pc = "sleep" /\ reaper'.pc # "sleep") => session_active
       /\ (reaper' # reaper /\ ~Sweeps) => shared' = shared
       /\ Sweeps =>
            /\ DOMAIN people' \subseteq DOMAIN people
            /\ \A pid \in DOMAIN people :
                  /\ pid \notin DOMAIN people' =>
                        /\ people[pid].last_seen_time + SESSION_TIMEOUT
                              < reaper.cutoff_time + SESSION_TIMEOUT
                        /\ now - people[pid].last_seen_time > SESSION_TIMEOUT
                  /\ pid \in DOMAIN people' => people'[pid] = people[pid]
            /\ audio_queue' = audio_queue
            /\ global_cooldown_until' = global_cooldown_until
            /\ session_active' = session_active]_vars

\* C23 witness: the reaper has just gone back to sleep at the current instant
\* and a record that was observed and announced earlier is still there.
C23_Witness ==
    /\ reaper.pc = "sleep"
    /\ reaper.wake_at = now + CLEANUP_INTERVAL
    /\ host.pc = "idle"
    /\ \E pid \in DOMAIN people :
          /\ people[pid].last_seen_time < now
          /\ rec_ann[pid].n >= 1

\* C24: once shutdown has cleared audio_thread_running, the worker enters
\* audio_callback at most once more (for the item of the iteration it was in)
\* and then leaves its loop, every call of audio_callback returning or raising.
C24_StopsAfterCurrentPlayback ==
    /\ [](worker.after_stop <= 1)
    /\ (~audio_thread_running ~> worker.pc = "done")

\* C24 witness: the worker has left its loop after a playback that it started
\* when the flag was already cleared.
C24_Witness ==
    /\ worker.pc = "done"
    /\ worker.after_stop = 1

\* C25: a MARKED person whose first observation after a gap greater than
\* REAPPEAR_THRESHOLD falls inside the lock window, and whose later
\* observations all follow the previous one within REAPPEAR_THRESHOLD, stays
\* MARKED and gets no "already marked" announcement: the record is MARKED, its
\* has_triggered_ignored_audio is clear and no announcement for the person is
\* waiting to be enqueued.
C25_LockedReappearanceConsumed ==
    \A pid \in PersonIds :
        lock_consumed[pid] # NoTime =>
            /\ pid \in DOMAIN people
            /\ people[pid].state = "MARKED"
            /\ ~people[pid].has_triggered_ignored_audio
            /\ people[pid].last_seen_time = lock_consumed[pid]
            /\ \A p \in Producers :
                  ~(prod[p].pc = "queue" /\ prod[p].person_id = pid)

\* C25 witness: after the locked observation that followed the long gap the
\* person was observed again once the lock window was over, and is MARKED.
C25_Witness ==
    \E pid \in DOMAIN people :
        /\ lock_consumed[pid] # NoTime
        /\ lock_consumed[pid] >= people[pid].audio_lock_until
        /\ people[pid].state = "MARKED"

\* C26: no interleaving reaches a deadlock. audio_queue_lock is held across
\* steps only by the worker while it inspects the queue, where it acquires
\* nothing; data_lock is held across steps only by a thread that is about to
\* take audio_queue_lock (process_person before _queue_audio, start_session and
\* end_session before the queue is cleared); so whenever a lock is held, a
\* thread that holds a lock can take its next step.
C26_NoDeadlock ==
    /\ audio_queue_lock \in {NoThread, "W"}
    /\ audio_queue_lock = "W" => worker.pc = "peek" /\ data_lock # "W"
    /\ data_lock \in {NoThread, "C"} \cup Producers
    /\ \A p \in Producers : data_lock = p => prod[p].pc = "queue"
    /\ data_lock = "C" => host.pc \in {"start_q", "end_q"}
    /\ audio_queue_lock # NoThread => ENABLED WPeek
    /\ data_lock # NoThread =>
          ENABLED (WPeek \/ HClearQueue \/ \E p \in Producers : PQueue(p))

\* C26 witness: a producer holds data_lock and waits for audio_queue_lock,
\* which the worker holds, while the host waits for data_lock.
C26_Witness ==
    /\ audio_queue_lock = "W"
    /\ data_lock = "p1"
    /\ prod["p1"].pc = "queue"
    /\ host.pc = "join"
    /\ reaper.pc = "lock"

\* C27: with no start_session, end_session or shutdown after the enqueue, the
\* clock advancing, every audio_callback call returning or raising and the
\* worker scheduled fairly, every announcement that is in the queue is
\* eventually the one the worker passes to audio_callback.
C27_EnqueuedIsPlayed ==
    \A n \in 0 .. 3 * Cardinality(PersonIds) :
        (\E i \in DOMAIN audio_queue : audio_queue[i].seq = n)
            ~> (worker.pc = "playing" /\ played = n)

\* C27 witness: the second of two announcements, which had to wait for the
\* global cooldown set after the first, is being played.
C27_Witness ==
    /\ worker.pc = "playing"
    /\ played = 1
    /\ since_end = AUDIO_COOLDOWN_GLOBAL

\* C28: while a record exists its last_seen_time never decreases, so that the
\* gap process_person computes from it is never negative, also when several
\* threads call process_person at once.
C28_LastSeenNeverDecreases ==
    [][/\ \A pid \in DOMAIN people \cap DOMAIN people' :
            people'[pid].last_seen_time >= people[pid].last_seen_time
       /\ \A p \in Producers :
            (Processes(p) /\ prod[p].person_id \in DOMAIN people)
            => prod[p].current_time - people[prod[p].person_id].last_seen_time >= 0]_vars

\* C29: no record is in NEW when data_lock is free or the creating call is
\* about to enqueue: the call that creates a record moves it to MARKING in the
\* same critical section, so get_person_state and get_all_states never report
\* NEW.
C29_NewNeverVisible ==
    \A pid \in PersonIds : GetPersonState(people, pid) # "NEW"

\* C29 witness: the call that created the record is still inside its critical
\* section, about to enqueue "Marking attendance", and the record is MARKING.
C29_Witness ==
    \E p \in Producers :
        /\ prod[p].pc = "queue"
        /\ prod[p].audio_text = <<"Marking attendance">>
        /\ data_lock = p
        /\ GetPersonState(people, prod[p].person_id) = "MARKING"

\* C30: in every reachable state a record's has_triggered_ignored_audio is
\* set exactly when its state is IGNORED, so the test of the flag in
\* _trigger_audio_for_transition never finds it set on the transition to
\* IGNORED.
C30_FlagIffIgnored ==
    \A pid \in DOMAIN people :
        people[pid].has_triggered_ignored_audio <=> people[pid].state = "IGNORED"

\* C30 witness: a record is IGNORED with the flag set and its "already
\* marked" announcement enqueued once.
C30_Witness ==
    \E pid \in DOMAIN people :
        /\ people[pid].state = "IGNORED"
        /\ people[pid].has_triggered_ignored_audio
        /\ announced[pid]["IGNORED"] = 1

====
